---- MODULE Spec2Model ----
(***************************************************************************)
(* Voting/awards backend: the request handlers of routes/public.js and     *)
(* routes/admin.js over the five tables of the hosted store.               *)
(*                                                                         *)
(* Every `await supabase...` of a handler is one atomic step on the store; *)
(* between two awaits of one request any step of another request may run.  *)
(* A handler's first store call is taken together with the arrival of the  *)
(* request (nothing shared is touched in between), and its last store call *)
(* together with the response it sends.                                    *)
(*                                                                         *)
(* The repository declares no schema: the store keeps the rows the         *)
(* handlers write and enforces nothing of its own.  Any store call may     *)
(* fail (ok = FALSE), which is what a handler sees as `error`.             *)
(***************************************************************************)
EXTENDS Integers, Sequences, FiniteSets, TLC

\* ---- bounds --------------------------------------------------------------
NumVoters == 2
NumCategories == 2
NumNominees == 2
NumEmails == 2
MaxRequests == 4
MaxFailures == 1
MaxInFlight == 2
MaxSignins == 4
NumKeys == 2

VoterIds == 1..NumVoters
CategoryIds == 1..NumCategories
NomineeIds == 1..NumNominees
Emails == 1..NumEmails

VARIABLES
    categories,   \* table categories: set of rows [id, is_active]
    nominees,     \* table nominees: set of ids
    nominations,  \* table nominations: rows [id, category_id, nominee_id] in insertion order
    nextNominationId,
    votes,        \* table votes: <<voter_id, category_id, nominee_id>> -> number of rows
    voters,       \* table voters: set of rows [id, email]
    nextVoterId,
    reqs,         \* requests suspended at an await: [id, kind, pc, voter_id, category_id, nominee_id]
    winners,      \* the GET /winners request in flight
    resp,         \* the response sent by the step just taken (NoResp: none)
    nStarted,     \* requests started so far
    nFailed,      \* store calls failed so far
    adminSecretKey, \* process.env.ADMIN_SECRET_KEY (0: not set)
    existed       \* the states of the votes table that existed during the
                  \* GET /winners request in flight, or just answered

vars == <<categories, nominees, nominations, nextNominationId, votes, voters,
          nextVoterId, reqs, winners, resp, nStarted, nFailed, adminSecretKey,
          existed>>

storeVars == <<categories, nominees, nominations, nextNominationId, votes>>
signinVars == <<voters, nextVoterId>>

\* ---- helpers -------------------------------------------------------------
RECURSIVE SumOver(_, _)
SumOver(f, S) ==
    IF S = {} THEN 0
    ELSE LET x == CHOOSE y \in S : TRUE IN f[x] + SumOver(f, S \ {x})

VoteKeys == VoterIds \X CategoryIds \X NomineeIds

\* .from('nominations').select(..., {count}).eq('category_id', c).eq('nominee_id', n)
CountNominations(c, n) ==
    Cardinality({i \in DOMAIN nominations :
        nominations[i].category_id = c /\ nominations[i].nominee_id = n})

\* .from('votes').select('id').eq('voter_id', v).eq('category_id', c): rows matched
CountVoterVotes(v, c) ==
    SumOver(votes, {k \in VoteKeys : k[1] = v /\ k[2] = c})

\* .from('votes').select('id', {count}).eq('nominee_id', n).eq('category_id', c)
CountVotes(c, n) ==
    SumOver(votes, {k \in VoteKeys : k[2] = c /\ k[3] = n})

CategoryVotes(c) == SumOver(votes, {k \in VoteKeys : k[2] = c})
NomineeVotes(n) == SumOver(votes, {k \in VoteKeys : k[3] = n})

\* A response: the status sent, the request it answers (id and arguments) and
\* the handler's locals when it answered: isNominated / existingVote are the
\* values the two pre-checks of POST /vote returned (-1: not reached, or the
\* call failed and returned null), error tells that a store call of the
\* request failed, voterId and results are the bodies of /signin and /winners,
\* nomineesInCat and linkError the locals of /winners (see WinnersIdle), done
\* the number of deletes a cascading delete had executed when it answered.
NoResults == <<>>
NoResp ==
    [kind |-> "none", status |-> 0, voter_id |-> 0, category_id |-> 0,
     nominee_id |-> 0, email |-> 0, isNominated |-> -1, existingVote |-> -1,
     error |-> FALSE, voterId |-> 0, results |-> NoResults,
     nomineesInCat |-> <<>>, linkError |-> {}, done |-> 0]

Response(kind, status, v, c, n) ==
    [NoResp EXCEPT !.kind = kind, !.status = status, !.voter_id = v,
                   !.category_id = c, !.nominee_id = n]

ResponseTo(r, status) ==
    [Response(r.kind, status, r.voter_id, r.category_id, r.nominee_id)
        EXCEPT !.email = r.email, !.isNominated = r.isNominated]

\* requests in flight are told apart by a slot number
FreeId == CHOOSE i \in 1..(Cardinality(reqs) + 1) : \A r \in reqs : r.id # i

Request(kind, pc, v, c, n) ==
    [id |-> FreeId, kind |-> kind, pc |-> pc, voter_id |-> v,
     category_id |-> c, nominee_id |-> n, email |-> 0, isNominated |-> -1]

\* The GET /winners request: cats are the categories fetched, pendingLinks
\* those whose nominations query has not answered, linkError those where it
\* failed, nomineesInCat[c] the nominee ids it returned, tally[c][i] the
\* vote count of nomineesInCat[c][i] (-1 while its count query is pending).
WinnersIdle ==
    [pc |-> "idle", cats |-> {}, pendingLinks |-> {}, linkError |-> {},
     countError |-> FALSE, nomineesInCat |-> <<>>, tally |-> <<>>]

\* a store call answers ok, or fails while failures remain in the budget
StoreCall(ok) == ok \/ nFailed < MaxFailures
Failed(ok) == nFailed' = IF ok THEN nFailed ELSE nFailed + 1

\* every step leaves the environment alone; while a GET /winners request is in
\* flight, the state of the votes table after the step is one that existed
\* during that request
Observed ==
    /\ UNCHANGED adminSecretKey
    /\ existed' = IF winners'.pc = "idle" THEN {}
                  ELSE IF winners.pc = "idle" THEN {votes'}
                  ELSE existed \cup {votes'}

\* The categories and nominees the admin has created (POST /categories and
\* POST /nominees insert the name only, so is_active has the column default),
\* before any nomination, vote or sign-in.
Init ==
    /\ categories = {[id |-> c, is_active |-> TRUE] : c \in CategoryIds}
    /\ nominees = NomineeIds
    /\ nominations = <<>>
    /\ nextNominationId = 1
    /\ votes = [k \in VoteKeys |-> 0]
    /\ voters = {}
    /\ nextVoterId = 1
    /\ reqs = {}
    /\ winners = WinnersIdle
    /\ resp = NoResp
    /\ nStarted = 0
    /\ nFailed = 0
    /\ adminSecretKey = 1
    /\ existed = {}

\* ---- request bookkeeping -------------------------------------------------
InFlight == Cardinality(reqs) + (IF winners.pc = "idle" THEN 0 ELSE 1)

\* a request arrives: within the budget, and while the server has a free handler
CanStart == nStarted < MaxRequests /\ InFlight < MaxInFlight

\* the handler answers at its first store call
Answer(response) ==
    /\ resp' = response
    /\ nStarted' = nStarted + 1
    /\ UNCHANGED reqs

\* the handler suspends at its next await
Suspend(r) ==
    /\ reqs' = reqs \cup {r}
    /\ nStarted' = nStarted + 1
    /\ resp' = NoResp

\* a suspended handler moves on to its next await
Continue(r, pc) ==
    /\ reqs' = (reqs \ {r}) \cup {[r EXCEPT !.pc = pc]}
    /\ resp' = NoResp
    /\ UNCHANGED nStarted

\* a suspended handler answers
Finish(r, response) ==
    /\ reqs' = reqs \ {r}
    /\ resp' = response
    /\ UNCHANGED nStarted

Suspended(kind, pc) == {r \in reqs : r.kind = kind /\ r.pc = pc}

\* ---- POST /api/public/vote ------------------------------------------------
\* (mutation of VoteCheckNomination: the duplicate-vote check answers before it)
VoteCheckNomination_DuplicateFirst(v, c, n, ok) ==
    /\ CanStart
    /\ StoreCall(ok)
    /\ Failed(ok)
    /\ LET isNominated == IF ok THEN CountNominations(c, n) ELSE -1
           r == [Request("vote", "checkVote", v, c, n)
                    EXCEPT !.isNominated = isNominated]
       IN CASE ok /\ CountVoterVotes(v, c) = 1 ->
                 Answer([ResponseTo(r, 409) EXCEPT !.existingVote = 1])
            [] ~ok \/ isNominated = 0 ->
                 Answer([ResponseTo(r, 400) EXCEPT !.error = ~ok])
            [] OTHER -> Suspend(r)
    /\ UNCHANGED <<storeVars, signinVars, winners>>
    /\ Observed

\* the nomination check: 400 when the call fails or counts no nomination
VoteCheckNomination(v, c, n, ok) ==
    /\ CanStart
    /\ StoreCall(ok)
    /\ Failed(ok)
    /\ LET isNominated == IF ok THEN CountNominations(c, n) ELSE -1
           r == [Request("vote", "checkVote", v, c, n)
                    EXCEPT !.isNominated = isNominated]
       IN IF ~ok \/ isNominated = 0
          THEN Answer([ResponseTo(r, 400) EXCEPT !.error = ~ok])
          ELSE Suspend(r)
    /\ UNCHANGED <<storeVars, signinVars, winners>>
    /\ Observed

\* .maybeSingle(): the row, null when no row matches, an error when several do
MaybeSingle(rows, ok) == IF ok /\ rows <= 1 THEN rows ELSE -1

\* the duplicate-vote check: 500 on error, 409 when a vote exists
VoteCheckExisting(r, ok) ==
    /\ r \in Suspended("vote", "checkVote")
    /\ StoreCall(ok)
    /\ Failed(ok)
    /\ LET existingVote == MaybeSingle(CountVoterVotes(r.voter_id, r.category_id), ok)
       IN CASE existingVote = -1 ->
                 Finish(r, [ResponseTo(r, 500) EXCEPT !.error = TRUE])
            [] existingVote = 1 ->
                 Finish(r, [ResponseTo(r, 409) EXCEPT !.existingVote = 1])
            [] OTHER -> Continue(r, "insert")
    /\ UNCHANGED <<storeVars, signinVars, winners>>
    /\ Observed

InsertVote(v, c, n) == [votes EXCEPT ![<<v, c, n>>] = @ + 1]

\* (mutation of VoteInsert: the row is written though the insert reports an error)
VoteInsert_WritesOnError(r, ok) ==
    /\ r \in Suspended("vote", "insert")
    /\ StoreCall(ok)
    /\ Failed(ok)
    /\ votes' = InsertVote(r.voter_id, r.category_id, r.nominee_id)
    /\ IF ok
       THEN Finish(r, [ResponseTo(r, 201) EXCEPT !.existingVote = 0])
       ELSE Finish(r, [ResponseTo(r, 500) EXCEPT !.existingVote = 0, !.error = TRUE])
    /\ UNCHANGED <<categories, nominees, nominations, nextNominationId, signinVars, winners>>
    /\ Observed

\* the insert: 500 on error, else the row is written and 201 is sent
VoteInsert(r, ok) ==
    /\ r \in Suspended("vote", "insert")
    /\ StoreCall(ok)
    /\ Failed(ok)
    /\ IF ok
       THEN /\ votes' = InsertVote(r.voter_id, r.category_id, r.nominee_id)
            /\ Finish(r, [ResponseTo(r, 201) EXCEPT !.existingVote = 0])
       ELSE /\ UNCHANGED votes
            /\ Finish(r, [ResponseTo(r, 500) EXCEPT !.existingVote = 0, !.error = TRUE])
    /\ UNCHANGED <<categories, nominees, nominations, nextNominationId, signinVars, winners>>
    /\ Observed

\* ---- POST /api/admin/nominations ------------------------------------------
\* the duplicate check: 500 on error, 409 when the pair is already nominated
NominationCheck(c, n, ok) ==
    /\ CanStart
    /\ StoreCall(ok)
    /\ Failed(ok)
    /\ LET r == Request("nomination", "insert", 0, c, n)
       IN CASE ~ok -> Answer([ResponseTo(r, 500) EXCEPT !.error = TRUE])
            [] ok /\ CountNominations(c, n) > 0 -> Answer(ResponseTo(r, 409))
            [] OTHER -> Suspend(r)
    /\ UNCHANGED <<storeVars, signinVars, winners>>
    /\ Observed

InsertNomination(c, n) ==
    Append(nominations, [id |-> nextNominationId, category_id |-> c, nominee_id |-> n])

\* the insert: 400 on error, else the row is written and 201 is sent
NominationInsert(r, ok) ==
    /\ r \in Suspended("nomination", "insert")
    /\ StoreCall(ok)
    /\ Failed(ok)
    /\ IF ok
       THEN /\ nominations' = InsertNomination(r.category_id, r.nominee_id)
            /\ nextNominationId' = nextNominationId + 1
            /\ Finish(r, ResponseTo(r, 201))
       ELSE /\ UNCHANGED <<nominations, nextNominationId>>
            /\ Finish(r, [ResponseTo(r, 400) EXCEPT !.error = TRUE])
    /\ UNCHANGED <<categories, nominees, votes, signinVars, winners>>
    /\ Observed

\* ---- DELETE /api/admin/nominations/:id ------------------------------------
DeleteNominationRow(id) == SelectSeq(nominations, LAMBDA row : row.id # id)

DeleteNomination(id, ok) ==
    /\ CanStart
    /\ StoreCall(ok)
    /\ Failed(ok)
    /\ nominations' = IF ok THEN DeleteNominationRow(id) ELSE nominations
    /\ Answer([Response("deleteNomination", IF ok THEN 200 ELSE 500, 0, 0, 0)
                  EXCEPT !.error = ~ok])
    /\ UNCHANGED <<categories, nominees, nextNominationId, votes, signinVars, winners>>
    /\ Observed

\* ---- DELETE /api/admin/categories/:id -------------------------------------
DeleteVotesOfCategory(c) == [k \in VoteKeys |-> IF k[2] = c THEN 0 ELSE votes[k]]
DeleteNominationsOfCategory(c) ==
    SelectSeq(nominations, LAMBDA row : row.category_id # c)
DeleteCategoryRow(c) == {row \in categories : row.id # c}

\* 1. delete the votes of the category
DeleteCategoryVotes(c, ok) ==
    /\ CanStart
    /\ StoreCall(ok)
    /\ Failed(ok)
    /\ LET r == Request("deleteCategory", "nominations", 0, c, 0)
       IN IF ok
          THEN votes' = DeleteVotesOfCategory(c) /\ Suspend(r)
          ELSE UNCHANGED votes /\ Answer([ResponseTo(r, 500) EXCEPT !.error = TRUE])
    /\ UNCHANGED <<categories, nominees, nominations, nextNominationId, signinVars, winners>>
    /\ Observed

\* (mutation of DeleteCategoryNominations: a failed delete does not end the request)
DeleteCategoryNominations_GoesOn(r, ok) ==
    /\ r \in Suspended("deleteCategory", "nominations")
    /\ StoreCall(ok)
    /\ Failed(ok)
    /\ nominations' = IF ok THEN DeleteNominationsOfCategory(r.category_id)
                             ELSE nominations
    /\ Continue(r, "category")
    /\ UNCHANGED <<categories, nominees, nextNominationId, votes, signinVars, winners>>
    /\ Observed

\* 2. delete the nominations of the category
DeleteCategoryNominations(r, ok) ==
    /\ r \in Suspended("deleteCategory", "nominations")
    /\ StoreCall(ok)
    /\ Failed(ok)
    /\ IF ok
       THEN nominations' = DeleteNominationsOfCategory(r.category_id)
            /\ Continue(r, "category")
       ELSE UNCHANGED nominations
            /\ Finish(r, [ResponseTo(r, 500) EXCEPT !.error = TRUE, !.done = 1])
    /\ UNCHANGED <<categories, nominees, nextNominationId, votes, signinVars, winners>>
    /\ Observed

\* 3. delete the category itself and answer 200
DeleteCategoryFinal(r, ok) ==
    /\ r \in Suspended("deleteCategory", "category")
    /\ StoreCall(ok)
    /\ Failed(ok)
    /\ IF ok
       THEN categories' = DeleteCategoryRow(r.category_id)
            /\ Finish(r, [ResponseTo(r, 200) EXCEPT !.done = 3])
       ELSE UNCHANGED categories
            /\ Finish(r, [ResponseTo(r, 500) EXCEPT !.error = TRUE, !.done = 2])
    /\ UNCHANGED <<nominees, nominations, nextNominationId, votes, signinVars, winners>>
    /\ Observed

\* ---- DELETE /api/admin/nominees/:id ---------------------------------------
DeleteVotesOfNominee(n) == [k \in VoteKeys |-> IF k[3] = n THEN 0 ELSE votes[k]]
DeleteNominationsOfNominee(n) ==
    SelectSeq(nominations, LAMBDA row : row.nominee_id # n)
DeleteNomineeRow(n) == nominees \ {n}

\* 1. delete the votes for the nominee
DeleteNomineeVotes(n, ok) ==
    /\ CanStart
    /\ StoreCall(ok)
    /\ Failed(ok)
    /\ LET r == Request("deleteNominee", "nominations", 0, 0, n)
       IN IF ok
          THEN votes' = DeleteVotesOfNominee(n) /\ Suspend(r)
          ELSE UNCHANGED votes /\ Answer([ResponseTo(r, 500) EXCEPT !.error = TRUE])
    /\ UNCHANGED <<categories, nominees, nominations, nextNominationId, signinVars, winners>>
    /\ Observed

\* 2. delete the nominations of the nominee
DeleteNomineeNominations(r, ok) ==
    /\ r \in Suspended("deleteNominee", "nominations")
    /\ StoreCall(ok)
    /\ Failed(ok)
    /\ IF ok
       THEN nominations' = DeleteNominationsOfNominee(r.nominee_id)
            /\ Continue(r, "nominee")
       ELSE UNCHANGED nominations
            /\ Finish(r, [ResponseTo(r, 500) EXCEPT !.error = TRUE, !.done = 1])
    /\ UNCHANGED <<categories, nominees, nextNominationId, votes, signinVars, winners>>
    /\ Observed

\* 3. delete the nominee itself and answer 200
DeleteNomineeFinal(r, ok) ==
    /\ r \in Suspended("deleteNominee", "nominee")
    /\ StoreCall(ok)
    /\ Failed(ok)
    /\ IF ok
       THEN nominees' = DeleteNomineeRow(r.nominee_id)
            /\ Finish(r, [ResponseTo(r, 200) EXCEPT !.done = 3])
       ELSE UNCHANGED nominees
            /\ Finish(r, [ResponseTo(r, 500) EXCEPT !.error = TRUE, !.done = 2])
    /\ UNCHANGED <<categories, nominations, nextNominationId, votes, signinVars, winners>>
    /\ Observed

\* ---- GET /api/admin/winners -----------------------------------------------
\* 1. fetch the categories; the per-category queries start together
WinnersFetchCategories(ok) ==
    /\ CanStart
    /\ winners.pc = "idle"
    /\ StoreCall(ok)
    /\ Failed(ok)
    /\ nStarted' = nStarted + 1
    /\ IF ok
       THEN LET cats == {row.id : row \in categories}
            IN /\ winners' = [pc |-> "tally", cats |-> cats,
                              pendingLinks |-> cats, linkError |-> {},
                              countError |-> FALSE,
                              nomineesInCat |-> [c \in cats |-> <<>>],
                              tally |-> [c \in cats |-> <<>>]]
               /\ resp' = NoResp
       ELSE /\ resp' = [Response("winners", 500, 0, 0, 0) EXCEPT !.error = TRUE]
            /\ UNCHANGED winners
    /\ UNCHANGED <<storeVars, signinVars, reqs>>
    /\ Observed

\* the nominee ids of the rows of `links`, in row order
RECURSIVE NomineesOf(_)
NomineesOf(links) ==
    IF links = <<>> THEN <<>>
    ELSE <<Head(links).nominee_id>> \o NomineesOf(Tail(links))

\* nominations of category c joined to their nominee, links without one dropped
NomineesInCat(c) ==
    NomineesOf(SelectSeq(nominations,
        LAMBDA row : row.category_id = c /\ row.nominee_id \in nominees))

\* 2. the nominations of one category
WinnersFetchLinks(c, ok) ==
    /\ winners.pc = "tally"
    /\ c \in winners.pendingLinks
    /\ StoreCall(ok)
    /\ Failed(ok)
    /\ winners' = IF ok
                  THEN LET nomineesInCat == NomineesInCat(c)
                       IN [winners EXCEPT !.pendingLinks = @ \ {c},
                                          !.nomineesInCat[c] = nomineesInCat,
                                          !.tally[c] = [i \in DOMAIN nomineesInCat |-> -1]]
                  ELSE [winners EXCEPT !.pendingLinks = @ \ {c}, !.linkError = @ \cup {c}]
    /\ resp' = NoResp
    /\ UNCHANGED <<storeVars, signinVars, reqs, nStarted>>
    /\ Observed

\* 3. the vote count of one nominee of one category; 0 when the count fails
WinnersCount(c, i, ok) ==
    /\ winners.pc = "tally"
    /\ c \in winners.cats
    /\ i \in DOMAIN winners.tally[c]
    /\ winners.tally[c][i] = -1
    /\ StoreCall(ok)
    /\ Failed(ok)
    /\ winners' = [winners EXCEPT !.tally[c][i] =
                      IF ok THEN CountVotes(c, winners.nomineesInCat[c][i]) ELSE 0,
                                  !.countError = @ \/ ~ok]
    /\ resp' = NoResp
    /\ UNCHANGED <<storeVars, signinVars, reqs, nStarted>>
    /\ Observed

\* (mutation of InsertSorted: an entry goes before the entries it ties with)
InsertSorted_Unstable(sorted, e) ==
    LET k == Cardinality({i \in DOMAIN sorted : sorted[i].voteCount > e.voteCount})
    IN SubSeq(sorted, 1, k) \o <<e>> \o SubSeq(sorted, k + 1, Len(sorted))

\* tally.sort((a, b) => b.voteCount - a.voteCount): descending, stable
InsertSorted(sorted, e) ==
    LET k == Cardinality({i \in DOMAIN sorted : sorted[i].voteCount >= e.voteCount})
    IN SubSeq(sorted, 1, k) \o <<e>> \o SubSeq(sorted, k + 1, Len(sorted))

RECURSIVE SortTally(_)
SortTally(tally) ==
    IF tally = <<>> THEN <<>>
    ELSE InsertSorted(SortTally(SubSeq(tally, 1, Len(tally) - 1)), tally[Len(tally)])

NoNominees == [id |-> 0, name |-> "No nominees", voteCount |-> 0]
LinkError == [id |-> 0, name |-> "Error", voteCount |-> 0]

Winner(tally) == IF tally # <<>> THEN tally[1] ELSE NoNominees

\* the result entry of one category
CategoryResult(c) ==
    IF c \in winners.linkError
    THEN [winner |-> LinkError, fullTally |-> <<>>]
    ELSE LET tally == SortTally([i \in DOMAIN winners.tally[c] |->
                          [id |-> winners.nomineesInCat[c][i], name |-> "nominee",
                           voteCount |-> winners.tally[c][i]]])
         IN [winner |-> Winner(tally), fullTally |-> tally]

\* 4. every query has answered: sort, pick the winners, answer 200
WinnersRespond ==
    /\ winners.pc = "tally"
    /\ winners.pendingLinks = {}
    /\ \A c \in winners.cats : \A i \in DOMAIN winners.tally[c] : winners.tally[c][i] # -1
    /\ resp' = [Response("winners", 200, 0, 0, 0)
                   EXCEPT !.results = [c \in winners.cats |-> CategoryResult(c)],
                          !.nomineesInCat = winners.nomineesInCat,
                          !.linkError = winners.linkError,
                          !.error = winners.linkError # {} \/ winners.countError]
    /\ winners' = WinnersIdle
    /\ UNCHANGED <<storeVars, signinVars, reqs, nStarted, nFailed, adminSecretKey, existed>>

\* ---- POST /api/public/signin ----------------------------------------------
VotersWithEmail(email) == {row \in voters : row.email = email}

\* the lookup by email: 500 on error, 200 with the id of the voter found
SigninSelect(email, ok) ==
    /\ nStarted < MaxSignins
    /\ InFlight < MaxInFlight
    /\ StoreCall(ok)
    /\ Failed(ok)
    /\ LET found == VotersWithEmail(email)
           voter == MaybeSingle(Cardinality(found), ok)
           r == [Request("signin", "insert", 0, 0, 0) EXCEPT !.email = email]
       IN CASE voter = -1 -> Answer([ResponseTo(r, 500) EXCEPT !.error = TRUE])
            [] voter = 1 ->
                 Answer([ResponseTo(r, 200) EXCEPT
                            !.voterId = (CHOOSE row \in found : TRUE).id])
            [] OTHER -> Suspend(r)
    /\ UNCHANGED <<storeVars, signinVars, winners>>
    /\ Observed

InsertVoter(email) == voters \cup {[id |-> nextVoterId, email |-> email]}

\* no voter was found: insert one, 500 on error, else 200 with the new id
SigninInsert(r, ok) ==
    /\ r \in Suspended("signin", "insert")
    /\ StoreCall(ok)
    /\ Failed(ok)
    /\ IF ok
       THEN /\ voters' = InsertVoter(r.email)
            /\ nextVoterId' = nextVoterId + 1
            /\ Finish(r, [ResponseTo(r, 200) EXCEPT !.voterId = nextVoterId])
       ELSE /\ UNCHANGED signinVars
            /\ Finish(r, [ResponseTo(r, 500) EXCEPT !.error = TRUE])
    /\ UNCHANGED <<storeVars, winners>>
    /\ Observed

\* ---- specifications -------------------------------------------------------
\* the voting and admin requests over categories, nominees, nominations, votes
Next ==
    \/ \E v \in VoterIds, c \in CategoryIds, n \in NomineeIds, ok \in BOOLEAN :
          VoteCheckNomination(v, c, n, ok)
    \/ \E r \in reqs, ok \in BOOLEAN : VoteCheckExisting(r, ok)
    \/ \E r \in reqs, ok \in BOOLEAN : VoteInsert(r, ok)
    \/ \E c \in CategoryIds, n \in NomineeIds, ok \in BOOLEAN : NominationCheck(c, n, ok)
    \/ \E r \in reqs, ok \in BOOLEAN : NominationInsert(r, ok)
    \/ \E id \in 1..(nextNominationId - 1), ok \in BOOLEAN : DeleteNomination(id, ok)
    \/ \E c \in CategoryIds, ok \in BOOLEAN : DeleteCategoryVotes(c, ok)
    \/ \E r \in reqs, ok \in BOOLEAN : DeleteCategoryNominations(r, ok)
    \/ \E r \in reqs, ok \in BOOLEAN : DeleteCategoryFinal(r, ok)
    \/ \E n \in NomineeIds, ok \in BOOLEAN : DeleteNomineeVotes(n, ok)
    \/ \E r \in reqs, ok \in BOOLEAN : DeleteNomineeNominations(r, ok)
    \/ \E r \in reqs, ok \in BOOLEAN : DeleteNomineeFinal(r, ok)
    \/ \E ok \in BOOLEAN : WinnersFetchCategories(ok)
    \/ \E c \in CategoryIds, ok \in BOOLEAN : WinnersFetchLinks(c, ok)
    \/ \E c \in CategoryIds, i \in 1..MaxRequests, ok \in BOOLEAN : WinnersCount(c, i, ok)
    \/ WinnersRespond

Spec == Init /\ [][Next]_vars

\* the sign-in requests over voters (no other handler writes that table)
NextSignin ==
    \/ \E email \in Emails, ok \in BOOLEAN : SigninSelect(email, ok)
    \/ \E r \in reqs, ok \in BOOLEAN : SigninInsert(r, ok)

SpecSignin == Init /\ [][NextSignin]_vars

\* The results of categories of either is_active flag (the handlers never write
\* the flag: a category is switched off in the store itself), with the
\* requests that decide what GET /winners lists.
InitCategories ==
    /\ categories \in {{[id |-> c, is_active |-> active[c]] : c \in CategoryIds} :
                          active \in [CategoryIds -> BOOLEAN]}
    /\ nominees = NomineeIds
    /\ nominations = <<>>
    /\ nextNominationId = 1
    /\ votes = [k \in VoteKeys |-> 0]
    /\ voters = {}
    /\ nextVoterId = 1
    /\ reqs = {}
    /\ winners = WinnersIdle
    /\ resp = NoResp
    /\ nStarted = 0
    /\ nFailed = 0
    /\ adminSecretKey = 1
    /\ existed = {}

NextResults ==
    \/ \E c \in CategoryIds, n \in NomineeIds, ok \in BOOLEAN : NominationCheck(c, n, ok)
    \/ \E r \in reqs, ok \in BOOLEAN : NominationInsert(r, ok)
    \/ \E c \in CategoryIds, ok \in BOOLEAN : DeleteCategoryVotes(c, ok)
    \/ \E r \in reqs, ok \in BOOLEAN : DeleteCategoryNominations(r, ok)
    \/ \E r \in reqs, ok \in BOOLEAN : DeleteCategoryFinal(r, ok)
    \/ \E ok \in BOOLEAN : WinnersFetchCategories(ok)
    \/ \E c \in CategoryIds, ok \in BOOLEAN : WinnersFetchLinks(c, ok)
    \/ \E c \in CategoryIds, i \in 1..MaxRequests, ok \in BOOLEAN : WinnersCount(c, i, ok)
    \/ WinnersRespond

SpecResults == InitCategories /\ [][NextResults]_vars

\* The ballot open: the admin has nominated every nominee in category 1, and
\* from there only votes are cast and results are read.
InitNominated ==
    /\ categories = {[id |-> c, is_active |-> TRUE] : c \in CategoryIds}
    /\ nominees = NomineeIds
    /\ nominations = [n \in NomineeIds |-> [id |-> n, category_id |-> 1, nominee_id |-> n]]
    /\ nextNominationId = NumNominees + 1
    /\ votes = [k \in VoteKeys |-> 0]
    /\ voters = {}
    /\ nextVoterId = 1
    /\ reqs = {}
    /\ winners = WinnersIdle
    /\ resp = NoResp
    /\ nStarted = 0
    /\ nFailed = 0
    /\ adminSecretKey = 1
    /\ existed = {}

NextBallot ==
    \/ \E v \in VoterIds, c \in CategoryIds, n \in NomineeIds, ok \in BOOLEAN :
          VoteCheckNomination(v, c, n, ok)
    \/ \E r \in reqs, ok \in BOOLEAN : VoteCheckExisting(r, ok)
    \/ \E r \in reqs, ok \in BOOLEAN : VoteInsert(r, ok)
    \/ \E ok \in BOOLEAN : WinnersFetchCategories(ok)
    \/ \E c \in CategoryIds, ok \in BOOLEAN : WinnersFetchLinks(c, ok)
    \/ \E c \in CategoryIds, i \in 1..MaxRequests, ok \in BOOLEAN : WinnersCount(c, i, ok)
    \/ WinnersRespond

SpecBallot == InitNominated /\ [][NextBallot]_vars

\* ---- the admin key ---------------------------------------------------------
\* The X-Admin-Key header of a request and the ADMIN_SECRET_KEY of the
\* environment are a key, or 0 when the header is missing / the variable is
\* not set (undefined in both cases). FallbackKey is the literal
\* 'your_fallback_admin_key', which a request can send like any other key.
Keys == 1..NumKeys
FallbackKey == NumKeys + 1
Headers == 0..FallbackKey

\* adminKey !== process.env.ADMIN_SECRET_KEY rejects; next() otherwise
checkAdminAuth(adminKey) == adminKey = adminSecretKey

\* the earlier router: process.env.ADMIN_SECRET_KEY || 'your_fallback_admin_key'
ADMIN_SECRET_KEY == IF adminSecretKey # 0 THEN adminSecretKey ELSE FallbackKey
checkAdminKey(header) == header = ADMIN_SECRET_KEY

\* the middleware answers, and the handler is not called
Reject(status) ==
    /\ resp' = Response("admin", status, 0, 0, 0)
    /\ UNCHANGED <<storeVars, signinVars, reqs, winners, nStarted, nFailed,
                   adminSecretKey, existed>>

\* adminRouter.use(checkAdminAuth), then the route
POSTNominations(adminKey, c, n, ok) ==
    IF checkAdminAuth(adminKey) THEN NominationCheck(c, n, ok) ELSE Reject(403)
DELETENomination(adminKey, id, ok) ==
    IF checkAdminAuth(adminKey) THEN DeleteNomination(id, ok) ELSE Reject(403)
DELETECategory(adminKey, c, ok) ==
    IF checkAdminAuth(adminKey) THEN DeleteCategoryVotes(c, ok) ELSE Reject(403)
DELETENominee(adminKey, n, ok) ==
    IF checkAdminAuth(adminKey) THEN DeleteNomineeVotes(n, ok) ELSE Reject(403)
GETWinners(adminKey, ok) ==
    IF checkAdminAuth(adminKey) THEN WinnersFetchCategories(ok) ELSE Reject(403)

\* GET /api/admin/voters of the earlier router: 500 on error, else the rows
VotersList(ok) ==
    /\ CanStart
    /\ StoreCall(ok)
    /\ Failed(ok)
    /\ Answer([Response("voters", IF ok THEN 200 ELSE 500, 0, 0, 0) EXCEPT !.error = ~ok])
    /\ UNCHANGED <<storeVars, signinVars, winners>>
    /\ Observed

\* adminRouter.use(checkAdminKey), then the route
GETVoters(header, ok) ==
    IF checkAdminKey(header) THEN VotersList(ok) ELSE Reject(401)

\* The server starts with ADMIN_SECRET_KEY set to a key, or not set
\* (supabase.js checks SUPABASE_URL and the service key only).
\* The admin sends one request at a time.
InitAdmin ==
    /\ categories = {[id |-> c, is_active |-> TRUE] : c \in CategoryIds}
    /\ nominees = NomineeIds
    /\ nominations = <<>>
    /\ nextNominationId = 1
    /\ votes = [k \in VoteKeys |-> 0]
    /\ voters = {}
    /\ nextVoterId = 1
    /\ reqs = {}
    /\ winners = WinnersIdle
    /\ resp = NoResp
    /\ nStarted = 0
    /\ nFailed = 0
    /\ adminSecretKey \in {0} \cup Keys
    /\ existed = {}

NextAdmin ==
    \/ InFlight = 0 /\ \E adminKey \in Headers, c \in CategoryIds, n \in NomineeIds, ok \in BOOLEAN :
          POSTNominations(adminKey, c, n, ok)
    \/ \E r \in reqs, ok \in BOOLEAN : NominationInsert(r, ok)
    \/ InFlight = 0 /\ \E adminKey \in Headers, id \in 1..(nextNominationId - 1), ok \in BOOLEAN :
          DELETENomination(adminKey, id, ok)
    \/ InFlight = 0 /\ \E adminKey \in Headers, c \in CategoryIds, ok \in BOOLEAN :
          DELETECategory(adminKey, c, ok)
    \/ \E r \in reqs, ok \in BOOLEAN : DeleteCategoryNominations(r, ok)
    \/ \E r \in reqs, ok \in BOOLEAN : DeleteCategoryFinal(r, ok)
    \/ InFlight = 0 /\ \E adminKey \in Headers, n \in NomineeIds, ok \in BOOLEAN :
          DELETENominee(adminKey, n, ok)
    \/ \E r \in reqs, ok \in BOOLEAN : DeleteNomineeNominations(r, ok)
    \/ \E r \in reqs, ok \in BOOLEAN : DeleteNomineeFinal(r, ok)
    \/ InFlight = 0 /\ \E adminKey \in Headers, ok \in BOOLEAN : GETWinners(adminKey, ok)
    \/ \E c \in CategoryIds, ok \in BOOLEAN : WinnersFetchLinks(c, ok)
    \/ \E c \in CategoryIds, i \in 1..MaxRequests, ok \in BOOLEAN : WinnersCount(c, i, ok)
    \/ WinnersRespond
    \/ InFlight = 0 /\ \E header \in Headers, ok \in BOOLEAN : GETVoters(header, ok)

SpecAdmin == InitAdmin /\ [][NextAdmin]_vars

\* ---- claims ---------------------------------------------------------------
Answered(kind, status) == resp.kind = kind /\ resp.status = status

RECURSIVE SumVoteCount(_)
SumVoteCount(tally) ==
    IF tally = <<>> THEN 0 ELSE Head(tally).voteCount + SumVoteCount(Tail(tally))

\* C1: every Vote row (voter, category, nominee) has a Nomination row for the
\* same (category, nominee) in every reachable state of the store.
C1_VoteHasNomination ==
    \A k \in VoteKeys : votes[k] > 0 => CountNominations(k[2], k[3]) > 0

\* C2: the votes table holds at most one Vote row per (voter, category) pair,
\* also when POST /vote requests of one voter for one category interleave.
C2_OneVotePerVoterCategory ==
    \A v \in VoterIds, c \in CategoryIds : CountVoterVotes(v, c) <= 1

\* C3: sign-in is idempotent on email: the voters table never holds two rows
\* with one email, and every successful sign-in returns the voterId the first
\* sign-in with that email got (the smallest id issued for the email).
C3_SigninIdempotent ==
    /\ \A email \in Emails : Cardinality(VotersWithEmail(email)) <= 1
    /\ Answered("signin", 200) =>
          \A row \in VotersWithEmail(resp.email) : resp.voterId <= row.id

\* C4: in a GET /winners response the voteCounts of a category's fullTally sum
\* to the number of Vote rows the store holds for that category.
C4_TallySumsToCategoryVotes ==
    Answered("winners", 200) =>
        \A c \in DOMAIN resp.results :
            SumVoteCount(resp.results[c].fullTally) = CategoryVotes(c)

\* C5: when DELETE /categories/:id answers 200 for category C, the store holds
\* no Nomination row and no Vote row referencing C.
C5_CategoryDeleteLeavesNothing ==
    Answered("deleteCategory", 200) =>
        /\ CategoryVotes(resp.category_id) = 0
        /\ \A n \in NomineeIds : CountNominations(resp.category_id, n) = 0

\* C6: when DELETE /nominees/:id answers 200 for nominee N, the store holds no
\* Nomination row and no Vote row referencing N, in any category.
C6_NomineeDeleteLeavesNothing ==
    Answered("deleteNominee", 200) =>
        /\ NomineeVotes(resp.nominee_id) = 0
        /\ \A c \in CategoryIds : CountNominations(c, resp.nominee_id) = 0

\* C7: POST /vote checks in this order: no Nomination for (categoryId,
\* nomineeId) -> 400, also when the voter already has a vote in the category;
\* otherwise a Vote of (voterId, categoryId) exists -> 409; otherwise the vote
\* is inserted and 201 is sent.  (isNominated and existingVote are what the two
\* checks returned; a store call that fails is answered as C13 tells.)
C7_VoteChecksInOrder ==
    resp.kind = "vote" =>
        LET v == resp.voter_id
            c == resp.category_id
            n == resp.nominee_id
        IN /\ resp.status \in {400, 409, 201, 500}
           /\ resp.isNominated = 0 => resp.status = 400
           /\ resp.status = 400 /\ ~resp.error => CountNominations(c, n) = 0
           /\ resp.isNominated > 0 /\ resp.existingVote = 1 => resp.status = 409
           /\ resp.status = 409 => resp.isNominated > 0 /\ CountVoterVotes(v, c) = 1
           /\ resp.isNominated > 0 /\ resp.existingVote = 0 /\ ~resp.error =>
                 resp.status = 201 /\ votes[<<v, c, n>>] >= 1
           /\ resp.status = 201 => resp.isNominated > 0 /\ resp.existingVote = 0

\* C7 witness: a vote for a pair that is not nominated is answered 400 although
\* the voter already has a vote in that category.
C7_Witness ==
    /\ Answered("vote", 400)
    /\ resp.isNominated = 0
    /\ CountVoterVotes(resp.voter_id, resp.category_id) >= 1

\* C8: in a GET /winners response the winner of a category is the top entry of
\* its tally, but a sentinel with voteCount 0 that is no nominee when the
\* category has no nominees (fullTally empty) or its tally has no votes at all.
C8_SentinelWithoutVotes ==
    Answered("winners", 200) =>
        \A c \in DOMAIN resp.results :
            LET result == resp.results[c]
            IN IF result.fullTally = <<>> \/ SumVoteCount(result.fullTally) = 0
               THEN result.winner.id = 0 /\ result.winner.voteCount = 0
               ELSE result.winner = result.fullTally[1]

\* C9: the nominations table holds at most one row per (category, nominee)
\* pair, and a POST /nominations inserts only a pair that did not exist.
C9_OneNominationPerPair ==
    /\ \A c \in CategoryIds, n \in NomineeIds : CountNominations(c, n) <= 1
    /\ Answered("nomination", 201) =>
          CountNominations(resp.category_id, resp.nominee_id) = 1

\* C10: for every category of a GET /winners response (whose nominations query
\* answered), fullTally has one entry per nominee nominated in the category,
\* zero-vote nominees with voteCount 0 included, in descending voteCount order
\* with ties in nomination order, and winner is its first entry when it holds
\* a vote.
C10_FullTallySorted ==
    Answered("winners", 200) =>
        \A c \in DOMAIN resp.results \ resp.linkError :
            LET ids == resp.nomineesInCat[c]
                tally == resp.results[c].fullTally
            IN /\ Len(tally) = Len(ids)
               /\ \A i \in DOMAIN tally : tally[i].voteCount >= 0
               /\ \E p \in Permutations(DOMAIN ids) :
                     /\ \A i \in DOMAIN tally : tally[i].id = ids[p[i]]
                     /\ \A i, j \in DOMAIN tally :
                           i < j =>
                             /\ tally[i].voteCount >= tally[j].voteCount
                             /\ tally[i].voteCount = tally[j].voteCount => p[i] < p[j]
               /\ SumVoteCount(tally) > 0 => resp.results[c].winner = tally[1]

\* C10 witness: a tally of two nominees where the one nominated second has the
\* votes and comes first, the other is listed with voteCount 0.
C10_Witness ==
    /\ Answered("winners", 200)
    /\ \E c \in DOMAIN resp.results \ resp.linkError :
          LET ids == resp.nomineesInCat[c]
              tally == resp.results[c].fullTally
          IN /\ Len(tally) = 2
             /\ ids[1] # ids[2]
             /\ tally[1].id = ids[2] /\ tally[1].voteCount > 0
             /\ tally[2].id = ids[1] /\ tally[2].voteCount = 0
             /\ resp.results[c].winner = tally[1]

\* C11: a GET /winners response holds one result entry per active category and
\* no entry for a category whose is_active flag is false.
C11_ResultsOfActiveCategories ==
    Answered("winners", 200) =>
        \A row \in categories : (row.id \in DOMAIN resp.results) <=> row.is_active

\* the votes of (category c, nominee n) in a state `table` of the votes table
CountVotesIn(table, c, n) ==
    SumOver(table, {k \in VoteKeys : k[2] = c /\ k[3] = n})

\* C12: a GET /winners response reflects one snapshot: its voteCounts, of every
\* nominee of every category, are the counts of one state of the votes table
\* that existed during the request.
C12_ConsistentSnapshot ==
    Answered("winners", 200) =>
        \E table \in existed :
            \A c \in DOMAIN resp.results :
                \A i \in DOMAIN resp.results[c].fullTally :
                    LET entry == resp.results[c].fullTally[i]
                    IN entry.voteCount = CountVotesIn(table, c, entry.id)

\* C13: a request one of whose store calls failed is answered 500, never with
\* a success status or another error class.
C13_StoreFailureAnswers500 ==
    resp.kind # "none" /\ resp.error => resp.status = 500

\* the rows a cascading delete request is about
CascadeKinds == {"deleteCategory", "deleteNominee"}
InCascade(r, c, n) ==
    IF r.kind = "deleteCategory" THEN c = r.category_id ELSE n = r.nominee_id
LastStep(r) == IF r.kind = "deleteCategory" THEN "category" ELSE "nominee"

\* one step, seen from the cascading deletes: what each position of a request
\* says about the deletes done, and what each answer says about the store
CascadeStep ==
    /\ \A r \in reqs' \ reqs : r.kind \in CascadeKinds =>
          \* a request waits for its second delete: it has just arrived and this
          \* step removed its votes, and nothing else
          /\ r.pc = "nominations" =>
                /\ \A old \in reqs : old.id # r.id
                /\ votes' = [k \in VoteKeys |->
                                IF InCascade(r, k[2], k[3]) THEN 0 ELSE votes[k]]
                /\ UNCHANGED <<categories, nominees, nominations>>
          \* a request waits for its third delete: it waited for the second and
          \* this step removed its nominations, and nothing else
          /\ r.pc # "nominations" =>
                /\ r.pc = LastStep(r)
                /\ [r EXCEPT !.pc = "nominations"] \in reqs \ reqs'
                /\ nominations' = SelectSeq(nominations,
                      LAMBDA row : ~InCascade(r, row.category_id, row.nominee_id))
                /\ UNCHANGED <<categories, nominees, votes>>
    \* the category or nominee row goes last, in the step that answers 200
    /\ (categories' # categories \/ nominees' # nominees
          \/ (resp'.kind \in CascadeKinds /\ resp'.status = 200)) =>
          /\ resp'.kind \in CascadeKinds /\ resp'.status = 200 /\ ~resp'.error
          /\ \E r \in reqs \ reqs' :
                /\ r.kind = resp'.kind /\ r.pc = LastStep(r)
                /\ r.category_id = resp'.category_id /\ r.nominee_id = resp'.nominee_id
                /\ categories' = {row \in categories : ~InCascade(r, row.id, 0)}
                /\ nominees' = {n \in nominees : ~InCascade(r, 0, n)}
          /\ UNCHANGED <<nominations, votes>>
    \* a failed step answers 500: the request takes no further step, and the
    \* store is as the earlier steps left it
    /\ (resp'.kind \in CascadeKinds /\ resp'.status # 200) =>
          /\ resp'.status = 500 /\ resp'.error
          /\ reqs' \subseteq reqs
          /\ resp'.done > 0 =>
                \E r \in reqs \ reqs' :
                    /\ r.kind = resp'.kind
                    /\ r.category_id = resp'.category_id
                    /\ r.nominee_id = resp'.nominee_id
          /\ UNCHANGED storeVars

\* C14: a cascading delete removes votes, then nominations, then the category
\* (or nominee) row; a failed step ends the request with an error, never 200,
\* no later step runs, and what earlier steps removed is not restored.
C14_CascadeOrder == [][CascadeStep]_vars

\* a cascading delete failed at its last step, after both earlier deletes
C14_Witness ==
    /\ Answered("deleteCategory", 500) /\ resp.done = 2
    /\ \E row \in categories : row.id = resp.category_id

\* one step of a POST /vote request: it arrives, moves to its next store call
\* or is answered
VoteStep == resp'.kind = "vote" \/ \E r \in reqs' \ reqs : r.kind = "vote"

VoteFrame ==
    VoteStep =>
        /\ UNCHANGED <<categories, nominees, nominations, nextNominationId,
                       voters, nextVoterId>>
        /\ resp'.kind = "vote" => resp'.status \in {201, 400, 409, 500}
        /\ votes' = IF resp'.kind = "vote" /\ resp'.status = 201
                    THEN [votes EXCEPT ![<<resp'.voter_id, resp'.category_id,
                                            resp'.nominee_id>>] = @ + 1]
                    ELSE votes

\* C15: a POST /vote request adds exactly its row (voterId, categoryId,
\* nomineeId) when it answers 201 and leaves the votes table unchanged when it
\* answers 400, 409 or 500; it never changes another row or another table.
C15_VoteInsertsOneRowOrNone == [][VoteFrame]_vars

\* a vote was answered 201 and its row is in the table
C15_Witness ==
    /\ Answered("vote", 201)
    /\ votes[<<resp.voter_id, resp.category_id, resp.nominee_id>>] > 0

\* a request with this X-Admin-Key header arrives at the admin router
AdminArrives(adminKey) ==
    \/ \E c \in CategoryIds, n \in NomineeIds, ok \in BOOLEAN :
          POSTNominations(adminKey, c, n, ok)
    \/ \E id \in 1..(nextNominationId - 1), ok \in BOOLEAN :
          DELETENomination(adminKey, id, ok)
    \/ \E c \in CategoryIds, ok \in BOOLEAN : DELETECategory(adminKey, c, ok)
    \/ \E n \in NomineeIds, ok \in BOOLEAN : DELETENominee(adminKey, n, ok)
    \/ \E ok \in BOOLEAN : GETWinners(adminKey, ok)

\* ... at the admin router of the earlier version
AdminArrivesEarlier(header) == \E ok \in BOOLEAN : GETVoters(header, ok)

\* the request is answered 401/403 and no store call was made for it
Rejected ==
    /\ resp'.kind = "admin" /\ resp'.status \in {401, 403}
    /\ UNCHANGED <<storeVars, signinVars, reqs, winners, nStarted, nFailed>>

AdminKeyRequired ==
    \A key \in Headers :
        /\ AdminArrives(key) /\ (key = 0 \/ key # adminSecretKey) => Rejected
        /\ AdminArrivesEarlier(key) /\ (key = 0 \/ key # ADMIN_SECRET_KEY) => Rejected

\* C16: an admin request whose X-Admin-Key header is missing or differs from
\* the configured admin secret is rejected with 401/403 before any store call.
C16_AdminKeyRequired == [][AdminKeyRequired]_vars

====
